---- MODULE Spec2Model ----
(***************************************************************************)
(* A model of the Deep-CFR training evaluator and the strategy update:    *)
(*   client/Back/CFRTrainingEvaluator.py   (CFRTrainingEvaluator,         *)
(*                                          evaluate_cfr_training)        *)
(*   client/Back/update_strategy_network.py (update_strategy_network)     *)
(* Numbers the code computes with "/" are exact rationals <<n, d>>, d > 0, *)
(* kept in lowest terms; <<0, 0>> stands for a raised ZeroDivisionError.   *)
(* An optional argument is <<>> (None) or <<v>> (the value v).            *)
(***************************************************************************)
EXTENDS Integers, Sequences, FiniteSets, TLC

VARIABLES
    history,          \* CFRTrainingEvaluator.history: metric name -> list
    logged_by,        \* per history entry, the number of the log_metrics call that appended it
    log_calls,        \* number of log_metrics calls made so far
    test_states,      \* argument of evaluate_declaration_accuracy
    num_samples,      \* argument of evaluate_declaration_accuracy
    sampled_states,   \* the random.sample drawn by the last evaluation
    result,           \* what the last evaluate_declaration_accuracy returned
    advantage_vector, \* the observation's vector in the regret-matching step
    policy,           \* the policy computed from advantage_vector
    reservoir_buffer, \* the strategy ReservoirBuffer: [buffer, seen]
    last_add,         \* the item the last ReservoirBuffer.add was given and the index it drew (-1: none)
    last_call,        \* what the last update_strategy_network call did
    current_state,    \* the state pool passed to evaluate_cfr_training
    iterations,       \* argument of evaluate_cfr_training
    i,                \* the loop variable of evaluate_cfr_training
    pc,               \* position of evaluate_cfr_training
    train_error,      \* the exception evaluate_cfr_training ended with
    fit_calls         \* advantage_net.fit: the calls made and the examples they were given

vars == <<history, logged_by, log_calls, test_states, num_samples, sampled_states,
          result, advantage_vector, policy, reservoir_buffer, last_add, last_call,
          current_state, iterations, i, pc, train_error, fit_calls>>

(***************************************************************************)
(* Bounds of the model.                                                    *)
(***************************************************************************)
MaxPool == 2
MaxSamples == 2
MaxCalls == 3
MaxLen == 3
MaxSeen == 4
MaxObs == 2
MaxBatch == 3
MaxIter == 3
Capacity == 2

(***************************************************************************)
(* Exact arithmetic.                                                       *)
(***************************************************************************)
Abs(x) == IF x < 0 THEN -x ELSE x

RECURSIVE GCD(_, _)
GCD(a, b) == IF b = 0 THEN a ELSE GCD(b, a % b)

Rat(n, d) ==
    LET g == GCD(Abs(n), Abs(d))
        s == IF d < 0 THEN -1 ELSE 1
    IN <<s * (n \div g), s * (d \div g)>>

ZeroDivisionError == <<0, 0>>

Zero == <<0, 1>>

IsError(x) == x[2] = 0

\* x + y over the least common denominator
RAdd(x, y) ==
    IF IsError(x) \/ IsError(y) THEN ZeroDivisionError
    ELSE LET g == GCD(x[2], y[2])
             l == (x[2] \div g) * y[2]
         IN Rat(x[1] * (l \div x[2]) + y[1] * (l \div y[2]), l)

\* Python's x / y (the common factor of the denominators cancelled first)
TrueDiv(x, y) ==
    IF IsError(x) \/ IsError(y) \/ y[1] = 0 THEN ZeroDivisionError
    ELSE LET g == GCD(x[2], y[2])
         IN Rat(x[1] * (y[2] \div g), (x[2] \div g) * y[1])

RLeq(x, y) == x[1] * y[2] <= y[1] * x[2]

Whole(n) == <<n, 1>>

Min(a, b) == IF a < b THEN a ELSE b

RLt(x, y) == x[1] * y[2] < y[1] * x[2]

RECURSIVE RSum(_)
RSum(s) == IF s = <<>> THEN Zero ELSE RAdd(Head(s), RSum(Tail(s)))

RECURSIVE SeqMin(_)
SeqMin(s) == IF Len(s) = 1 THEN s[1] ELSE Min(Head(s), SeqMin(Tail(s)))

\* the sequences of length 0..n over S
SeqsUpTo(S, n) == UNION {[1..k -> S] : k \in 0..n}

\* the orderings of k distinct positions of a list of n elements
Arrangements(n, k) == {f \in [1..k -> 1..n] : \A a, b \in 1..k : a # b => f[a] # f[b]}

None == <<>>

Some(v) == <<v>>

(***************************************************************************)
(* GameState: the fields the evaluator reads.                              *)
(***************************************************************************)
SumValues == {-5, 0, 10}

DeclarationValues == {5, 10, 15}

GameStates == [sum : SumValues, selectaction : DeclarationValues]

StatePools == SeqsUpTo(GameStates, MaxPool)

(***************************************************************************)
(* CFRTrainingEvaluator.evaluate_declaration_accuracy                      *)
(***************************************************************************)
\* one pass of the loop body over `state`, acc = the three running totals
DeclarationStep(acc, state) ==
    LET declaration == state.selectaction
        actual_sum == state.sum
    IN IF actual_sum > 0
       THEN LET ratio == TrueDiv(Whole(declaration), Whole(actual_sum))
            IN [total_ratio |-> RAdd(acc.total_ratio, ratio),
                overestimation_count |->
                    IF declaration > actual_sum THEN acc.overestimation_count + 1
                    ELSE acc.overestimation_count,
                correct_declarations |->
                    IF RLeq(<<4, 5>>, ratio) /\ RLeq(ratio, <<6, 5>>)
                    THEN acc.correct_declarations + 1
                    ELSE acc.correct_declarations]
       ELSE acc

RECURSIVE DeclarationLoop(_, _)
DeclarationLoop(acc, states) ==
    IF states = <<>> THEN acc
    ELSE DeclarationLoop(DeclarationStep(acc, Head(states)), Tail(states))

\* the mean without its `if sample_size > 0` guard
UnguardedMean(x, sample_size) == TrueDiv(x, Whole(sample_size))

\* `x / sample_size if sample_size > 0 else 0`
GuardedMean(x, sample_size) ==
    IF sample_size > 0 THEN TrueDiv(x, Whole(sample_size)) ELSE Zero

\* the returned triple, given the sample random.sample drew
DeclarationAccuracy(sampled) ==
    LET sample_size == Len(sampled)
        acc == DeclarationLoop([total_ratio |-> Zero, overestimation_count |-> 0,
                                correct_declarations |-> 0], sampled)
        avg_ratio == GuardedMean(acc.total_ratio, sample_size)
        accuracy == GuardedMean(Whole(acc.correct_declarations), sample_size)
        overestimation_rate == GuardedMean(Whole(acc.overestimation_count), sample_size)
        raised == IsError(avg_ratio) \/ IsError(accuracy) \/ IsError(overestimation_rate)
    IN [raised |-> raised,
        avg_ratio |-> avg_ratio,
        accuracy |-> accuracy,
        overestimation_rate |-> overestimation_rate,
        returned |-> ~raised]

\* random.sample(test_states, min(num_samples, len(test_states)))
RandomSamples(states, n) ==
    LET sample_size == Min(n, Len(states))
    IN {[k \in 1..sample_size |-> states[f[k]]] : f \in Arrangements(Len(states), sample_size)}

NoResult == [raised |-> FALSE, avg_ratio |-> Zero, accuracy |-> Zero,
             overestimation_rate |-> Zero, returned |-> FALSE]

evaluate_declaration_accuracy ==
    /\ \E sampled \in RandomSamples(test_states, num_samples) :
          /\ sampled_states' = sampled
          /\ result' = DeclarationAccuracy(sampled)
    /\ UNCHANGED <<history, logged_by, log_calls, test_states, num_samples,
                   advantage_vector, policy, reservoir_buffer, last_add, last_call,
                   current_state, iterations, i, pc, train_error, fit_calls>>

(***************************************************************************)
(* CFRTrainingEvaluator.__init__ and log_metrics                           *)
(***************************************************************************)
MetricNames == {"advantage_loss", "strategy_accuracy", "declaration_vs_sum_ratio", "win_rate"}

EmptyHistory == [advantage_loss |-> <<>>, strategy_accuracy |-> <<>>,
                 declaration_vs_sum_ratio |-> <<>>, win_rate |-> <<>>, epoch |-> <<>>]

\* `if value: list.append(value)`: a zero is dropped like None
AppendIfTruthy(list, value) ==
    IF value # None /\ value[1] # Zero THEN Append(list, value[1]) ELSE list

\* `if value is not None: list.append(value)`
AppendIfNotNone(list, value) == IF value # None THEN Append(list, value[1]) ELSE list

\* the history after log_metrics(epoch, advantage_loss, ..., win_rate)
LogMetrics(h, epoch, advantage_loss, strategy_accuracy, declaration_vs_sum_ratio, win_rate) ==
    [epoch |-> Append(h.epoch, epoch),
     advantage_loss |-> AppendIfNotNone(h.advantage_loss, advantage_loss),
     strategy_accuracy |-> AppendIfNotNone(h.strategy_accuracy, strategy_accuracy),
     declaration_vs_sum_ratio |->
         AppendIfNotNone(h.declaration_vs_sum_ratio, declaration_vs_sum_ratio),
     win_rate |-> AppendIfNotNone(h.win_rate, win_rate)]

\* the same appends, recording the call's number instead of the value
Tag(value, call) == IF value # None THEN Some(Whole(call)) ELSE None

LogOrigin(o, call, advantage_loss, strategy_accuracy, declaration_vs_sum_ratio, win_rate) ==
    LogMetrics(o, call, Tag(advantage_loss, call), Tag(strategy_accuracy, call),
               Tag(declaration_vs_sum_ratio, call), Tag(win_rate, call))

MetricValues == {<<1, 2>>}

OptionalMetric == {None} \cup {Some(v) : v \in MetricValues}

log_metrics ==
    /\ log_calls < MaxCalls
    /\ \E epoch \in 0..1, advantage_loss \in OptionalMetric, strategy_accuracy \in OptionalMetric,
          declaration_vs_sum_ratio \in OptionalMetric, win_rate \in OptionalMetric :
          /\ history' = LogMetrics(history, epoch, advantage_loss, strategy_accuracy,
                                   declaration_vs_sum_ratio, win_rate)
          /\ logged_by' = LogOrigin(logged_by, log_calls + 1, advantage_loss,
                                    strategy_accuracy, declaration_vs_sum_ratio, win_rate)
    /\ log_calls' = log_calls + 1
    /\ UNCHANGED <<test_states, num_samples, sampled_states, result,
                   advantage_vector, policy, reservoir_buffer, last_add, last_call,
                   current_state, iterations, i, pc, train_error, fit_calls>>

(***************************************************************************)
(* update_strategy_network: regret matching of one observation             *)
(***************************************************************************)
epsilon == <<1, 1000000>>

\* the shift without the minimum: advantage_vector + epsilon
ShiftedWithoutMin(v) == [k \in 1..Len(v) |-> RAdd(Whole(v[k]), epsilon)]

\* advantage_vector - min_adv + epsilon
ShiftedAdvantages(v) ==
    LET min_adv == SeqMin(v)
    IN [k \in 1..Len(v) |-> RAdd(Whole(v[k] - min_adv), epsilon)]

\* np.ones_like(advantage_vector) / len(advantage_vector)
UniformPolicy(v) == [k \in 1..Len(v) |-> TrueDiv(Whole(1), Whole(Len(v)))]

RegretMatching(v) ==
    LET shifted_advantages == ShiftedAdvantages(v)
        sum_positive == RSum(shifted_advantages)
    IN IF RLt(Zero, sum_positive)
       THEN [k \in 1..Len(v) |-> TrueDiv(shifted_advantages[k], sum_positive)]
       ELSE UniformPolicy(v)

AdvantageValues == -2..2

AdvantageVectors == SeqsUpTo(AdvantageValues, MaxLen) \ {<<>>}


(***************************************************************************)
(* ReservoirBuffer (client/Back/reservoirbuffer.py): add and sample        *)
(***************************************************************************)
NewReservoirBuffer == [buffer |-> <<>>, seen |-> 0]

NoAdd == [item |-> <<>>, draw |-> -1]

\* the indexes add may draw: none below capacity, [0, seen_count) at capacity
Draws(rb) == IF Len(rb.buffer) < Capacity THEN {-1} ELSE 0..rb.seen

\* an add that appends also at capacity
AddAlwaysAppends(rb, item, j) == [seen |-> rb.seen + 1, buffer |-> Append(rb.buffer, item)]

\* add(item) drawing index j
ReservoirAdd(rb, item, j) ==
    [seen |-> rb.seen + 1,
     buffer |-> IF Len(rb.buffer) < Capacity THEN Append(rb.buffer, item)
                ELSE IF j < Capacity THEN [rb.buffer EXCEPT ![j + 1] = item]
                ELSE rb.buffer]

\* sample(batch_size) fails (InsufficientDataError) below batch_size items
SampleFails(rb, batch_size) == Len(rb.buffer) < batch_size

Observations == {<<"s1", <<-3, -1, -5>>>>, <<"s2", <<5, 5, 5>>>>}

\* the entries a buffer holds: (encoded state, advantage vector or policy vector)
ReservoirItems ==
    {<<o[1], [k \in 1..Len(o[2]) |-> Whole(o[2][k])]>> : o \in Observations}
    \cup {<<o[1], RegretMatching(o[2])>> : o \in Observations}

reservoir_add ==
    /\ reservoir_buffer.seen < MaxSeen
    /\ \E item \in ReservoirItems, j \in Draws(reservoir_buffer) :
          /\ reservoir_buffer' = ReservoirAdd(reservoir_buffer, item, j)
          /\ last_add' = [item |-> item, draw |-> j]
    /\ UNCHANGED <<history, logged_by, log_calls, test_states, num_samples, sampled_states,
                   result, advantage_vector, policy, last_call,
                   current_state, iterations, i, pc, train_error, fit_calls>>

\* one pass of the inner for loop's body, for the observation
\* ("s1", advantage_vector): the policy is computed and offered to the buffer
regret_matching ==
    /\ policy = <<>>
    /\ policy' = RegretMatching(advantage_vector)
    /\ \E j \in Draws(reservoir_buffer) :
          /\ reservoir_buffer' = ReservoirAdd(reservoir_buffer, <<"s1", policy'>>, j)
          /\ last_add' = [item |-> <<"s1", policy'>>, draw |-> j]
    /\ UNCHANGED <<history, logged_by, log_calls, test_states, num_samples, sampled_states,
                   result, advantage_vector, last_call,
                   current_state, iterations, i, pc, train_error, fit_calls>>

(***************************************************************************)
(* update_strategy_network                                                 *)
(***************************************************************************)
\* the observations of `advantages` in the order the two for loops visit them
RECURSIVE Flatten(_)
Flatten(advantages) ==
    IF advantages = <<>> THEN <<>> ELSE Head(advantages) \o Flatten(Tail(advantages))

\* the mappings info_set -> list of (encoded_state, advantage_vector), as the list
\* of their values in insertion order
AdvantageInputs ==
    {a \in SeqsUpTo(SeqsUpTo(Observations, MaxObs), MaxObs) : Len(Flatten(a)) <= MaxObs}

\* the for loops: each observation's policy is offered to the buffer with add;
\* run = [rb, offered], the buffer and the items offered so far; the set of the
\* runs the draws of add allow
RECURSIVE AddPolicies(_, _)
AddPolicies(run, observations) ==
    IF observations = <<>> THEN {run}
    ELSE LET encoded_state == Head(observations)[1]
             item == <<encoded_state, RegretMatching(Head(observations)[2])>>
         IN UNION {AddPolicies([rb |-> ReservoirAdd(run.rb, item, j),
                                offered |-> Append(run.offered, item)],
                               Tail(observations)) : j \in Draws(run.rb)}

\* the size check made on the number of items offered, not on the items held
NotEnoughSeen(rb, batch_size) == rb.seen < batch_size

\* `if len(reservoir_buffer.buffer) < batch_size: return`
NotEnoughData(rb, batch_size) == Len(rb.buffer) < batch_size

NoCall == [called |-> FALSE, advantages |-> <<>>, batch_size |-> 0, offered |-> <<>>,
           size_at_check |-> 0, sample_called |-> FALSE, sample_failed |-> FALSE,
           fit_called |-> FALSE, returned |-> FALSE]

update_strategy_network ==
    /\ last_call = NoCall
    /\ \E advantages \in AdvantageInputs, batch_size \in 1..MaxBatch :
          /\ reservoir_buffer.seen + Len(Flatten(advantages)) <= MaxSeen
          /\ \E run \in AddPolicies([rb |-> reservoir_buffer, offered |-> <<>>],
                                    Flatten(advantages)) :
                LET call == [NoCall EXCEPT !.called = TRUE, !.advantages = advantages,
                                           !.batch_size = batch_size,
                                           !.offered = run.offered,
                                           !.size_at_check = Len(run.rb.buffer)]
                    failed == SampleFails(run.rb, batch_size)
                IN /\ reservoir_buffer' = run.rb
                   /\ last_call' =
                         IF NotEnoughData(run.rb, batch_size)
                         THEN [call EXCEPT !.returned = TRUE]
                         ELSE [call EXCEPT !.sample_called = TRUE,
                                           !.sample_failed = failed,
                                           !.fit_called = ~failed,
                                           !.returned = ~failed]
    /\ UNCHANGED <<history, logged_by, log_calls, test_states, num_samples, sampled_states,
                   result, advantage_vector, policy, last_add,
                   current_state, iterations, i, pc, train_error, fit_calls>>

\* the caller goes on: the record of the finished call is dropped
call_returns ==
    /\ last_call.called
    /\ last_call' = NoCall
    /\ UNCHANGED <<history, logged_by, log_calls, test_states, num_samples, sampled_states,
                   result, advantage_vector, policy, reservoir_buffer, last_add,
                   current_state, iterations, i, pc, train_error, fit_calls>>

(***************************************************************************)
(* evaluate_win_rate and evaluate_cfr_training                             *)
(***************************************************************************)
num_games == 50

DefaultNumSamples == 100

training_batch_size == 32

\* wins / num_games, for the number of simulated games won
WinRate(wins) == TrueDiv(Whole(wins), Whole(num_games))

WinCounts == {30, 50}

LossValues == {<<1, 2>>, <<1, 4>>}

AccuracyValues == {<<3, 5>>, <<7, 10>>}

TrainStates == {[sum |-> 10, selectaction |-> 15], [sum |-> 0, selectaction |-> 5]}

TrainPools == SeqsUpTo(TrainStates, MaxPool)

NoFits == [advantage |-> 0, examples |-> 0]

\* a batch draw that accepts an empty pool
ChoiceNeverRaises(pool) == FALSE

\* np.random.choice(len(current_state), batch_size) raises ValueError on a == 0
ChoiceRaises(pool) == Len(pool) = 0

\* one pass of the body of `for i in range(iterations)`
training_iteration ==
    /\ pc = "loop"
    /\ i < iterations
    /\ IF ChoiceRaises(current_state)
       THEN /\ pc' = "raised"
            /\ train_error' = "ValueError"
            /\ UNCHANGED <<history, logged_by, log_calls, i, fit_calls>>
       ELSE /\ \E advantage_loss \in LossValues, strategy_accuracy \in AccuracyValues,
                  sampled \in RandomSamples(current_state, DefaultNumSamples),
                  wins \in WinCounts :
                  LET declaration_ratio == DeclarationAccuracy(sampled).avg_ratio
                      win_rate == WinRate(wins)
                  IN /\ history' = LogMetrics(history, i, Some(advantage_loss),
                                              Some(strategy_accuracy),
                                              Some(declaration_ratio), Some(win_rate))
                     /\ logged_by' = LogOrigin(logged_by, log_calls + 1,
                                               Some(advantage_loss), Some(strategy_accuracy),
                                               Some(declaration_ratio), Some(win_rate))
            /\ log_calls' = log_calls + 1
            /\ fit_calls' = [fit_calls EXCEPT !.advantage = @ + 1,
                                              !.examples = @ + training_batch_size]
            /\ i' = i + 1
            /\ UNCHANGED <<pc, train_error>>
    /\ UNCHANGED <<test_states, num_samples, sampled_states, result, advantage_vector,
                   policy, reservoir_buffer, last_add, last_call, current_state, iterations>>

\* after the loop: the two charts are drawn from the history and the pool
finish_training ==
    /\ pc = "loop"
    /\ i = iterations
    /\ pc' = "done"
    /\ UNCHANGED <<history, logged_by, log_calls, test_states, num_samples, sampled_states,
                   result, advantage_vector, policy, reservoir_buffer, last_add, last_call,
                   current_state, iterations, i, train_error, fit_calls>>

(***************************************************************************)
(* Specifications                                                          *)
(***************************************************************************)
IdleEvaluator == history = EmptyHistory /\ logged_by = EmptyHistory /\ log_calls = 0

IdleEvaluation ==
    test_states = <<>> /\ num_samples = 0 /\ sampled_states = <<>> /\ result = NoResult

IdleRegret == advantage_vector = <<0>> /\ policy = <<>>

IdleBuffer ==
    reservoir_buffer = NewReservoirBuffer /\ last_add = NoAdd /\ last_call = NoCall

IdleTraining ==
    /\ current_state = <<>> /\ iterations = 0 /\ i = 0
    /\ pc = "idle" /\ train_error = "none"

\* evaluate_cfr_training(current_state, iterations): a fresh evaluator, two fresh buffers
Init ==
    /\ IdleEvaluator /\ IdleEvaluation /\ IdleRegret /\ IdleBuffer
    /\ current_state \in TrainPools
    /\ iterations \in 0..MaxIter
    /\ i = 0 /\ pc = "loop" /\ train_error = "none"
    /\ fit_calls = NoFits

Next == training_iteration \/ finish_training

Spec == Init /\ [][Next]_vars

\* a fresh evaluator and any sequence of log_metrics calls
InitLog ==
    /\ IdleEvaluator /\ IdleEvaluation /\ IdleRegret /\ IdleBuffer /\ IdleTraining
    /\ fit_calls = NoFits

NextLog == log_metrics

SpecLog == InitLog /\ [][NextLog]_vars

\* evaluate_declaration_accuracy on any pool with any num_samples
InitEval ==
    /\ IdleEvaluator /\ IdleRegret /\ IdleBuffer /\ IdleTraining
    /\ test_states \in StatePools
    /\ num_samples \in 0..MaxSamples
    /\ sampled_states = <<>>
    /\ result = NoResult
    /\ fit_calls = NoFits

NextEval == evaluate_declaration_accuracy

SpecEval == InitEval /\ [][NextEval]_vars

\* the regret matching of any advantage vector
InitRegret ==
    /\ IdleEvaluator /\ IdleEvaluation /\ IdleBuffer /\ IdleTraining
    /\ advantage_vector \in AdvantageVectors
    /\ policy = <<>>
    /\ fit_calls = NoFits

NextRegret == regret_matching

SpecRegret == InitRegret /\ [][NextRegret]_vars

\* any sequence of add calls on a fresh buffer
InitReservoir ==
    /\ IdleEvaluator /\ IdleEvaluation /\ IdleRegret /\ IdleBuffer /\ IdleTraining
    /\ fit_calls = NoFits

NextReservoir == reservoir_add

SpecReservoir == InitReservoir /\ [][NextReservoir]_vars

\* any sequence of update_strategy_network calls on a fresh buffer
NextStrategy == update_strategy_network \/ call_returns

SpecStrategy == InitReservoir /\ [][NextStrategy]_vars

(***************************************************************************)
(* Properties                                                              *)
(***************************************************************************)
HistoryNames == MetricNames \cup {"epoch"}

IsPositive(state) == state.sum > 0

Overestimates(state) == state.selectaction > state.sum

Ratios(states) ==
    [k \in 1..Len(states) |-> TrueDiv(Whole(states[k].selectaction), Whole(states[k].sum))]

ZeroTriple ==
    result.avg_ratio = Zero /\ result.accuracy = Zero /\ result.overestimation_rate = Zero

\* C1: every metric entry was logged by the call that appended the epoch entry
\* of the same index, also when some calls omit the metric.
C1_IndexAligned ==
    \A m \in MetricNames : \A k \in 1..Len(logged_by[m]) :
        logged_by[m][k] = Whole(logged_by.epoch[k])

\* C2: avg_ratio is the sum of declared/actual over the sampled states with
\* actual > 0 divided by the number of those states.
C2_MeanOverPositive ==
    result.returned =>
        LET positive == SelectSeq(sampled_states, IsPositive)
        IN Len(positive) > 0 =>
              result.avg_ratio = TrueDiv(RSum(Ratios(positive)), Whole(Len(positive)))

\* C3: overestimation_rate is the number of sampled states with declared > actual,
\* those with actual <= 0 included, divided by the number of sampled states.
C3_OverestimationOverAll ==
    (result.returned /\ Len(sampled_states) > 0) =>
        result.overestimation_rate =
            TrueDiv(Whole(Len(SelectSeq(sampled_states, Overestimates))),
                    Whole(Len(sampled_states)))

\* C4: evaluate_declaration_accuracy never raises; on an empty pool or
\* num_samples = 0 it returns (0, 0, 0), and so it does when no sampled state has
\* actual > 0.
C4_ZeroDefaults ==
    /\ ~result.raised
    /\ (result.returned /\ (test_states = <<>> \/ num_samples = 0)) =>
           (sampled_states = <<>> /\ ZeroTriple)
    /\ (result.returned /\ SelectSeq(sampled_states, IsPositive) = <<>>) => ZeroTriple

C4_Witness == result.returned /\ test_states = <<>> /\ num_samples > 0 /\ ZeroTriple

IsSimplex(p) ==
    /\ \A k \in 1..Len(p) : ~IsError(p[k]) /\ RLeq(Zero, p[k])
    /\ RSum(p) = Whole(1)

\* C5: the policy computed from an advantage vector of length n >= 1 and added to
\* the buffer has n entries, all >= 0, summing to 1; so has the uniform fallback.
C5_PolicyIsSimplex ==
    /\ \A k \in 1..Len(reservoir_buffer.buffer) :
          /\ reservoir_buffer.buffer[k][2] = policy
          /\ Len(policy) = Len(advantage_vector)
          /\ IsSimplex(policy)
    /\ IsSimplex(UniformPolicy(advantage_vector))
    /\ policy # <<>> => Len(reservoir_buffer.buffer) = 1

C5_Witness ==
    /\ Len(reservoir_buffer.buffer) = 1
    /\ Len(advantage_vector) = MaxLen
    /\ \A k \in 1..Len(advantage_vector) : advantage_vector[k] < 0
    /\ \E k \in 1..Len(advantage_vector) : advantage_vector[k] # advantage_vector[1]

\* C6: update_strategy_network offers every observation once, in order, before
\* the size check; below batch_size it returns without sample or fit; sample is
\* never called on a buffer holding fewer than batch_size items.
C6_SampleIsGuarded ==
    last_call.called =>
        LET observations == Flatten(last_call.advantages)
        IN /\ last_call.offered =
                 [k \in 1..Len(observations) |->
                     <<observations[k][1], RegretMatching(observations[k][2])>>]
           /\ last_call.size_at_check = Len(reservoir_buffer.buffer)
           /\ last_call.size_at_check < last_call.batch_size =>
                 (last_call.returned /\ ~last_call.sample_called /\ ~last_call.fit_called)
           /\ last_call.sample_called =>
                 (last_call.size_at_check >= last_call.batch_size /\ ~last_call.sample_failed)
           /\ last_call.fit_called =>
                 (last_call.sample_called /\ last_call.size_at_check >= last_call.batch_size)

C6_Witness ==
    /\ last_call.called
    /\ Len(last_call.offered) = MaxObs
    /\ last_call.size_at_check < last_call.batch_size
    /\ last_call.returned /\ ~last_call.sample_called /\ ~last_call.fit_called

IterationAttempted == iterations > 0 /\ ~(pc = "loop" /\ i = 0)

PrefixKept(old, new) == Len(old) <= Len(new) /\ SubSeq(new, 1, Len(old)) = old

\* C8: with a non-empty pool, after i completed iterations every one of the five
\* history lists has i entries and epoch is 0, 1, ..., i-1; no step changes or
\* removes an entry already logged.
C8_AllMetricsEveryEpoch ==
    /\ [](current_state # <<>> =>
            /\ \A name \in HistoryNames : Len(history[name]) = i
            /\ history.epoch = [k \in 1..i |-> k - 1])
    /\ [][\A name \in HistoryNames : PrefixKept(history[name], history'[name])]_vars

C8_Witness ==
    /\ current_state # <<>> /\ i = MaxIter /\ pc = "done"
    /\ \A name \in HistoryNames : Len(history[name]) = MaxIter
    /\ history.declaration_vs_sum_ratio[1] = Zero

\* C9: the buffer never holds more than Capacity items and holds
\* min(Capacity, seen); each add counts one more item seen; below capacity it
\* appends the item; at capacity it draws j in [0, seen) and overwrites entry j
\* alone when j < Capacity, and changes nothing otherwise.
C9_ReservoirAdd ==
    /\ [](/\ Len(reservoir_buffer.buffer) <= Capacity
          /\ Len(reservoir_buffer.buffer) = Min(Capacity, reservoir_buffer.seen))
    /\ [][/\ reservoir_buffer'.seen = reservoir_buffer.seen + 1
          /\ Len(reservoir_buffer.buffer) < Capacity =>
                reservoir_buffer'.buffer = Append(reservoir_buffer.buffer, last_add'.item)
          /\ Len(reservoir_buffer.buffer) = Capacity =>
                /\ last_add'.draw \in 0..(reservoir_buffer'.seen - 1)
                /\ last_add'.draw < Capacity =>
                      reservoir_buffer'.buffer =
                          [reservoir_buffer.buffer EXCEPT ![last_add'.draw + 1] = last_add'.item]
                /\ last_add'.draw >= Capacity =>
                      reservoir_buffer'.buffer = reservoir_buffer.buffer]_vars

C9_Witness ==
    /\ reservoir_buffer.seen = MaxSeen
    /\ Len(reservoir_buffer.buffer) = Capacity
    /\ last_add.draw \in 0..(Capacity - 1)
    /\ reservoir_buffer.buffer[last_add.draw + 1] = last_add.item
    /\ \E k \in 1..Capacity : reservoir_buffer.buffer[k] # last_add.item

\* C10: after an iteration that fitted the advantage estimator on its
\* observations, their policy targets are in the strategy buffer (it is not empty).
C10_StrategyBufferFilled ==
    (current_state # <<>> /\ i >= 1 /\ fit_calls.examples >= 1) =>
        Len(reservoir_buffer.buffer) >= 1
====
